---- MODULE Spec2Model ----
(***************************************************************************)
(* State-machine model of import_mu/armature.py: find_bones,               *)
(* create_bone, process_armature and create_armature.                      *)
(*                                                                         *)
(* A transform node (MuObject) is identified with its name, the key of    *)
(* mu.objects.  Geometry (vectors, quaternions, matrices) is abstracted    *)
(* to tokens that record where a value was computed; which skeleton and    *)
(* which bone every write targets is kept exactly.  Python set iteration   *)
(* order is unspecified, so every `for b in <set>` loop takes its elements *)
(* in an arbitrary order, one loop iteration per step.  The bone list of   *)
(* skins[k] is drawn when find_bones is called on it (the first place the  *)
(* code reads it); len(skins) and the first skin that names an unknown    *)
(* bone are fixed from the start.  The call starts on a freshly loaded    *)
(* scene graph: no node carries an annotation of an earlier build.  The    *)
(* position, rotation and relRotation annotations of lines 156-163 hold    *)
(* geometry only and are left out.                                         *)
(***************************************************************************)
EXTENDS Integers, Sequences, FiniteSets, TLC

\* ---------------------------------------------------------------- bounds
NumNodes == 3
MaxSkins == 2
MaxBones == 2

\* ---------------------------------------------------------------- values
AllNames == <<"A", "B", "C", "D", "E", "F", "G", "H">>
Nodes == {AllNames[i] : i \in 1..NumNodes}
Idx(n) == CHOOSE i \in 1..NumNodes : AllNames[i] = n

\* Python's None: the parent of a scene root, "no object", "no parent bone"
None == "None"
\* a bone name that is not a key of mu.objects
Missing == "missing"
\* the attribute is absent (hasattr is False)
NoAttr == "noattr"
\* a pose bone that does not exist has no matrix
NoMatrix == <<"none">>

\* the two skeleton containers made by bpy.data.armatures.new and the
\* two scene objects made by create_data_object
ArmatureData == "Armature"
BindPoseData == "bindPose"
Skeletons == {ArmatureData, BindPoseData}
ArmatureObj == "armature_obj"
BindPoseObj == "bindPose_obj"
SceneObjects == {ArmatureObj, BindPoseObj}
\* obj.data of a scene object
DataOf(o) == IF o = ArmatureObj THEN ArmatureData ELSE BindPoseData
\* an object that was active before the call
UserObj == "user_obj"

\* skin.skinned_mesh_renderer.bones: a list of names.  find_bones reads it
\* as a set (line 101) and in order up to the first name that is no key of
\* mu.objects (line 103), so lists are taken up to the order and repetition
\* of the known names, and end at the first unknown name.
BoneLists ==
  {<<>>} \cup UNION {
    {l \in [1..len -> Nodes \cup {Missing}] :
       \A i \in 1..(len - 1) :
         /\ l[i] # Missing
         /\ l[i + 1] # Missing => Idx(l[i]) < Idx(l[i + 1])}
    : len \in 1..MaxBones}
Range(s) == {s[i] : i \in 1..Len(s)}

\* transform trees: parent links without cycles (a node's parent has a
\* smaller index, which every finite forest satisfies up to renaming)
Forests == {p \in [Nodes -> Nodes \cup {None}] :
              \A n \in Nodes : p[n] # None => Idx(p[n]) < Idx(n)}

VARIABLES
  parent,       \* MuObject.parent of every node of mu.objects
  siblings,     \* the siblings argument, as set(siblings)
  armobj,       \* skins[0], a node of the scene graph
  nskins,       \* len(skins)
  firstBad,     \* index of the first skin that lists a name not in mu.objects, 0 if none
  pc,           \* position in create_armature
  err,          \* the exception that ended the call
  k,            \* index of the skin find_bones is working on (1-based)
  fb_bones,     \* find_bones: bones
  prev_bones,   \* find_bones: prev_bones
  todo,         \* elements the running for loop has not taken yet
  bones,        \* create_armature: bones
  rootBones,    \* create_armature: rootBones
  bindPose,     \* node -> its .bindPose attribute
  armature,     \* node -> its .armature attribute
  bone,         \* node -> its .bone attribute: a live edit bone or a name
  poseBone,     \* node -> its .poseBone attribute
  force_import, \* nodes whose .force_import is True
  datas,        \* skeleton containers in bpy.data.armatures
  objects,      \* scene objects created
  obj_parent,   \* scene object -> its .parent
  linked,       \* ctx.layer_collection.collection.objects
  mu_collection,\* mu.collection.objects
  active,       \* ctx.view_layer.objects.active
  save_active,  \* create_armature: save_active
  editing,      \* skeleton containers that are in edit mode
  edit_bones,   \* skeleton -> names of its bones
  bone_parent,  \* skeleton -> bone name -> name of its parent bone
  written,      \* the skeleton whose bones the last step mutated, or None
  stack,        \* process_bone: the call stack, innermost frame last
  visits,       \* node -> number of process_bone calls on it
  pose,         \* scene object -> bone name -> pose-bone matrix
  pose_written, \* <<scene object, bone name>> pairs whose matrix was assigned
  skin_refs     \* skin index -> its armature/bindPose back-references

input == <<parent, siblings, armobj, nskins, firstBad>>
ctl   == <<pc, err>>
find  == <<k, fb_bones, prev_bones>>
sets  == <<bones, rootBones>>
attrs == <<bindPose, armature, bone, poseBone, force_import>>
bpy   == <<datas, objects, obj_parent, linked, mu_collection, active,
           save_active>>
skel  == <<edit_bones, bone_parent>>
poses == <<pose, pose_written>>
proc  == <<stack, visits>>
vars  == <<input, ctl, find, todo, sets, attrs, bpy, editing, skel, written,
           poses, proc, skin_refs>>

\* ------------------------------------------------------------ helpers
\* obj.children of the scene graph
Children(n) == {c \in Nodes : parent[c] = n}

\* the matrix a pose bone has when its skeleton leaves edit mode: the rest
\* matrix of the edit bone of that name in that skeleton
RestMatrix(s, n) == <<"rest", s, n>>

\* skin.armature, .armature_obj, .bindPose, .bindPose_obj before line 203
NoRefs == [armature |-> NoAttr, armature_obj |-> NoAttr,
           bindPose |-> NoAttr, bindPose_obj |-> NoAttr]

\* ------------------------------------------------------------------ Init
Init ==
  /\ parent \in Forests
  /\ siblings \in SUBSET Nodes
  /\ armobj \in Nodes
  /\ nskins \in 1..MaxSkins
  /\ firstBad \in 0..nskins
  /\ pc = "find_bones"
  /\ err = "none"
  /\ k = 1
  /\ fb_bones = {}
  /\ prev_bones = {}
  /\ todo = {}
  /\ bones = {}
  /\ rootBones = {}
  /\ bindPose = [n \in Nodes |-> NoAttr]
  /\ armature = [n \in Nodes |-> NoAttr]
  /\ bone = [n \in Nodes |-> NoAttr]
  /\ poseBone = [n \in Nodes |-> NoAttr]
  /\ force_import = {}
  /\ datas = {}
  /\ objects = {}
  /\ obj_parent = [o \in SceneObjects |-> None]
  /\ linked = {}
  /\ mu_collection = {}
  /\ active = UserObj
  /\ save_active = None
  /\ editing = {}
  /\ edit_bones = [s \in Skeletons |-> {}]
  /\ bone_parent = [s \in Skeletons |-> [n \in Nodes |-> None]]
  /\ written = None
  /\ stack = <<>>
  /\ visits = [n \in Nodes |-> 0]
  /\ pose = [o \in SceneObjects |-> [n \in Nodes |-> NoMatrix]]
  /\ pose_written = {}
  /\ skin_refs = [i \in 1..nskins |-> NoRefs]

\* the call ends with an exception; nothing after the raising line runs
Raise(e) == pc' = "failed" /\ err' = e
\* the call goes on at position p
Goto(p) == pc' = p /\ err' = err

\* --------------------------------------------------- find_bones (100-122)
\* line 103: mu.objects[bname] raises KeyError for a name that is no key
LookupFailsNever(l) == FALSE
LookupFails(l) == Missing \in Range(l)

\* the index at which the loop of lines 102-106 raises
FirstMissing(l) ==
  CHOOSE i \in 1..Len(l) : l[i] = Missing /\ \A j \in 1..(i-1) : l[j] # Missing

\* lines 117-119: the nodes the inner while loop adds to bones when started
\* at b, and whether the loop ends (ok) or evaluates None.parent
RECURSIVE Walk(_)
WalkBoundaryOnly(b) ==
  IF b = None THEN [added |-> {}, ok |-> FALSE]
  ELSE IF b \in siblings THEN [added |-> {}, ok |-> TRUE]
  ELSE LET r == Walk(parent[b])
       IN  [added |-> IF r.added = {} THEN {parent[b]} ELSE r.added,
            ok |-> r.ok]
WalkStopsAtRoot(b) ==
  IF b = None THEN [added |-> {}, ok |-> TRUE]
  ELSE IF b \in siblings THEN [added |-> {}, ok |-> TRUE]
  ELSE LET r == Walk(parent[b])
       IN  [added |-> {parent[b]} \cup r.added, ok |-> r.ok]
Walk(b) ==
  IF b = None THEN [added |-> {}, ok |-> FALSE]
  ELSE IF b \in siblings THEN [added |-> {}, ok |-> TRUE]
  ELSE LET r == Walk(parent[b])
       IN  [added |-> {parent[b]} \cup r.added, ok |-> r.ok]

\* lines 101-111: look every listed name up in mu.objects and store the
\* bind pose on the bone
FindBonesLookup ==
  /\ pc = "find_bones"
  /\ \E l \in BoneLists :
       /\ (Missing \in Range(l)) <=> (k = firstBad)
       /\ IF LookupFails(l)
          THEN /\ bindPose' = [n \in Nodes |->
                    IF \E i \in 1..(FirstMissing(l) - 1) : l[i] = n
                    THEN "Matrix" ELSE bindPose[n]]
               /\ Raise("KeyError")
               /\ UNCHANGED <<fb_bones, prev_bones>>
          ELSE /\ bindPose' = [n \in Nodes |->
                    IF n \in Range(l) THEN "Matrix" ELSE bindPose[n]]
               /\ fb_bones' = {n \in Nodes : n \in Range(l)}
               /\ prev_bones' = {}
               /\ Goto("while")
  /\ written' = None
  /\ UNCHANGED <<input, k, todo, sets, armature, bone, poseBone, force_import,
                 bpy, editing, skel, poses, proc, skin_refs>>

\* line 112: the loop test.  When it fails find_bones returns bones (line
\* 122) and create_armature adds them to its own set (line 130), then
\* calls find_bones on the next skin or goes on to line 132.
WhileTest ==
  /\ pc = "while"
  /\ IF fb_bones \ prev_bones # {}
     THEN /\ prev_bones' = fb_bones
          /\ fb_bones' = {}
          /\ todo' = fb_bones
          /\ Goto("for")
          /\ UNCHANGED <<bones, k>>
     ELSE /\ bones' = bones \cup fb_bones
          /\ fb_bones' = {}
          /\ prev_bones' = {}
          /\ todo' = {}
          /\ IF k < nskins
             THEN k' = k + 1 /\ Goto("find_bones")
             ELSE k' = k /\ Goto("create")
  /\ written' = None
  /\ UNCHANGED <<input, rootBones, attrs, bpy, editing, skel, poses, proc,
                 skin_refs>>

\* lines 115-119: one iteration of `for b in prev_bones`
ForBone ==
  /\ pc = "for"
  /\ \E b \in todo :
       LET r == Walk(b) IN
       /\ fb_bones' = fb_bones \cup {b} \cup r.added
       /\ IF r.ok
          THEN /\ todo' = todo \ {b}
               /\ Goto(IF todo' = {} THEN "while" ELSE "for")
          ELSE /\ todo' = todo
               /\ Raise("AttributeError")
  /\ written' = None
  /\ UNCHANGED <<input, k, prev_bones, sets, attrs, bpy, editing,
                 skel, poses, proc, skin_refs>>

\* ---------------------------------------------- create_armature (124-208)
\* bpy.ops.object.mode_set: the active object's skeleton enters or leaves
\* edit mode (lines 154, 176, 179, 188)
mode_set_keep(mode) == IF mode = "EDIT" THEN editing \cup {DataOf(active)} ELSE editing
mode_set(mode) ==
  IF mode = "EDIT" THEN editing \cup {DataOf(active)}
  ELSE editing \ {DataOf(active)}

\* leaving edit mode rebuilds the pose bones of the object from the edit
\* bones of its skeleton
PoseAfterEdit(o) ==
  [pose EXCEPT ![o] = [n \in Nodes |->
      IF n \in edit_bones[DataOf(o)] THEN RestMatrix(DataOf(o), n)
      ELSE NoMatrix]]

\* lines 61-76, create_bone: edit_bones.new(xform.name) in the skeleton
\* whose edit_bones was passed; the new bone has no parent
create_bone(b, s) == [edit_bones EXCEPT ![s] = @ \cup {b}]

\* lines 132-153: the two containers, the two scene objects, linking them
\* and making the deform object active
CreateObjects ==
  /\ pc = "create"
  /\ armature' = [armature EXCEPT ![armobj] = ArmatureData]
  /\ bindPose' = [bindPose EXCEPT ![armobj] = BindPoseData]
  /\ datas' = datas \cup {ArmatureData, BindPoseData}
  /\ objects' = objects \cup {ArmatureObj, BindPoseObj}
  /\ obj_parent' = [obj_parent EXCEPT ![BindPoseObj] = ArmatureObj]
  /\ linked' = linked \cup {ArmatureObj, BindPoseObj}
  /\ save_active' = active
  /\ active' = ArmatureObj
  /\ Goto("edit_armature")
  /\ written' = None
  /\ UNCHANGED <<input, find, todo, sets, bone, poseBone, force_import,
                 mu_collection, editing, skel, poses, proc, skin_refs>>

\* line 154
EditArmature ==
  /\ pc = "edit_armature"
  /\ editing' = mode_set("EDIT")
  /\ todo' = bones
  /\ Goto("annotate")
  /\ written' = None
  /\ UNCHANGED <<input, find, sets, attrs, bpy, skel, poses, proc, skin_refs>>

\* lines 155-165: one iteration of the first `for b in bones`.  Line 164
\* stores armobj in b.armature; line 165 then reads armobj.armature, which
\* has no edit_bones unless it is still a skeleton container.
AnnotateBone ==
  /\ pc = "annotate"
  /\ IF todo = {}
     THEN /\ todo' = bones
          /\ Goto("link")
          /\ written' = None
          /\ UNCHANGED <<armature, bone, edit_bones>>
     ELSE \E b \in todo :
          /\ armature' = [armature EXCEPT ![b] = armobj]
          /\ IF armature'[armobj] \in Skeletons
             THEN /\ edit_bones' = create_bone(b, armature'[armobj])
                  /\ bone' = [bone EXCEPT ![b] = "edit_bone"]
                  /\ written' = armature'[armobj]
                  /\ todo' = todo \ {b}
                  /\ Goto("annotate")
             ELSE /\ Raise("AttributeError")
                  /\ written' = None
                  /\ UNCHANGED <<edit_bones, bone, todo>>
  /\ UNCHANGED <<input, find, sets, bindPose, poseBone, force_import, bpy,
                 editing, bone_parent, poses, proc, skin_refs>>

\* line 167: the bone becomes a root of the skeleton unless its source
\* parent is in the bone set
IsRootOnlyAtSceneRoot(b) == parent[b] = None
IsRoot(b) == parent[b] \notin bones

\* lines 166-174: one iteration of the second `for b in bones`
LinkBone ==
  /\ pc = "link"
  /\ IF todo = {}
     THEN /\ todo' = rootBones
          /\ Goto("process")
          /\ written' = None
          /\ UNCHANGED <<rootBones, bone_parent, force_import>>
     ELSE \E b \in todo :
          /\ IF IsRoot(b)
             THEN /\ rootBones' = rootBones \cup {b}
                  /\ written' = None
                  /\ UNCHANGED bone_parent
             ELSE /\ bone_parent' =
                       [bone_parent EXCEPT ![ArmatureData][b] = parent[b]]
                  /\ written' = ArmatureData
                  /\ UNCHANGED rootBones
          /\ force_import' =
               IF \E c \in Children(b) : c \notin bones
               THEN force_import \cup {b} ELSE force_import \ {b}
          /\ todo' = todo \ {b}
          /\ Goto("link")
  /\ UNCHANGED <<input, find, bones, bindPose, armature, bone, poseBone, bpy,
                 editing, edit_bones, poses, proc, skin_refs>>

\* ----------------------------------------------- process_armature (78-98)
\* line 87: the children process_bone recurses into
SameArmature(obj) == {c \in Children(obj) : armature[c] = armobj}

\* line 92: what obj.bone holds once process_bone(obj) is done
BoneKept(b) == bone[b]
BoneName(b) == "name"

\* lines 80-85 of a call process_bone(obj, ...) made with the callers'
\* frames stk: head, tail and roll of obj.bone are written, which fails
\* on a bone that is a name; then the loop over obj.children starts
EnterBone(obj, stk) ==
  IF bone[obj] = "edit_bone"
  THEN /\ visits' = [visits EXCEPT ![obj] = @ + 1]
       /\ stack' = Append(stk, [obj |-> obj, rest |-> SameArmature(obj)])
       /\ written' = ArmatureData
       /\ Goto("process")
  ELSE /\ Raise("AttributeError")
       /\ written' = None
       /\ UNCHANGED proc

\* lines 97-98 and 86-88: the next call of process_bone, on a root bone
\* or on a child of the bone whose call is innermost
ProcessBoneCall ==
  /\ pc = "process"
  /\ IF stack = <<>>
     THEN /\ todo # {}
          /\ \E r \in todo :
               /\ EnterBone(r, stack)
               /\ todo' = todo \ {r}
     ELSE LET top == stack[Len(stack)] IN
          /\ top.rest # {}
          /\ \E c \in top.rest :
               EnterBone(c, [stack EXCEPT ![Len(stack)].rest = @ \ {c}])
          /\ todo' = todo
  /\ UNCHANGED <<input, find, sets, attrs, bpy, editing, skel, poses,
                 skin_refs>>

\* line 92 and the return of the innermost call; after the last root bone
\* process_armature returns to line 176
ProcessBoneReturn ==
  /\ pc = "process"
  /\ IF stack = <<>>
     THEN /\ todo = {}
          /\ Goto("object_armature")
          /\ UNCHANGED <<bone, stack>>
     ELSE LET top == stack[Len(stack)] IN
          /\ top.rest = {}
          /\ bone' = [bone EXCEPT ![top.obj] = BoneName(top.obj)]
          /\ stack' = SubSeq(stack, 1, Len(stack) - 1)
          /\ Goto("process")
  /\ written' = None
  /\ UNCHANGED <<input, find, todo, sets, bindPose, armature, poseBone,
                 force_import, bpy, editing, skel, poses, visits, skin_refs>>

\* line 176
ObjectArmature ==
  /\ pc = "object_armature"
  /\ editing' = mode_set("OBJECT")
  /\ pose' = PoseAfterEdit(active)
  /\ Goto("activate_bindpose")
  /\ written' = None
  /\ UNCHANGED <<input, find, todo, sets, attrs, bpy, skel, pose_written,
                 proc, skin_refs>>

\* line 178
ActivateBindPose ==
  /\ pc = "activate_bindpose"
  /\ active' = BindPoseObj
  /\ Goto("edit_bindpose")
  /\ written' = None
  /\ UNCHANGED <<input, find, todo, sets, attrs, datas, objects, obj_parent,
                 linked, mu_collection, save_active, editing, skel, poses,
                 proc, skin_refs>>

\* line 179
EditBindPose ==
  /\ pc = "edit_bindpose"
  /\ editing' = mode_set("EDIT")
  /\ todo' = bones
  /\ Goto("bindpose")
  /\ written' = None
  /\ UNCHANGED <<input, find, sets, attrs, bpy, skel, poses, proc, skin_refs>>

\* line 181 (and 190): hasattr(b, "bindPose")
HasBindPoseAlways(b) == TRUE
HasBindPose(b) == bindPose[b] # NoAttr

\* lines 180-187: one iteration of the third `for b in bones`
BindPoseBone ==
  /\ pc = "bindpose"
  /\ IF todo = {}
     THEN /\ Goto("object_bindpose")
          /\ written' = None
          /\ UNCHANGED <<todo, edit_bones, poseBone>>
     ELSE \E b \in todo :
          IF HasBindPose(b)
          THEN IF bindPose[b] = BindPoseData
               THEN /\ Raise("AttributeError")
                    /\ written' = None
                    /\ UNCHANGED <<todo, edit_bones, poseBone>>
               ELSE /\ edit_bones' = create_bone(b, bindPose[armobj])
                    /\ poseBone' = [poseBone EXCEPT ![b] = b]
                    /\ written' = bindPose[armobj]
                    /\ todo' = todo \ {b}
                    /\ Goto("bindpose")
          ELSE /\ todo' = todo \ {b}
               /\ Goto("bindpose")
               /\ written' = None
               /\ UNCHANGED <<edit_bones, poseBone>>
  /\ UNCHANGED <<input, find, sets, bindPose, armature, bone, force_import,
                 bpy, editing, bone_parent, poses, proc, skin_refs>>

\* line 188
ObjectBindPose ==
  /\ pc = "object_bindpose"
  /\ editing' = mode_set("OBJECT")
  /\ pose' = PoseAfterEdit(active)
  /\ todo' = bones
  /\ Goto("copy")
  /\ written' = None
  /\ UNCHANGED <<input, find, sets, attrs, bpy, skel, pose_written, proc,
                 skin_refs>>

\* lines 191-193: pb is the pose bone of the bind-pose object, rb the one
\* of the deform object; the object whose pose bone is assigned and the
\* object whose pose bone is read
CopyTargetDeform == ArmatureObj
CopyTarget == BindPoseObj
CopySource == ArmatureObj

\* lines 189-193: one iteration of the fourth `for b in bones`
CopyPose ==
  /\ pc = "copy"
  /\ IF todo = {}
     THEN /\ Goto("finish")
          /\ UNCHANGED <<todo, poses>>
     ELSE \E b \in todo :
          /\ IF HasBindPose(b)
             THEN /\ pose' = [pose EXCEPT ![CopyTarget][poseBone[b]] =
                                pose[CopySource][poseBone[b]]]
                  /\ pose_written' =
                       pose_written \cup {<<CopyTarget, poseBone[b]>>}
             ELSE UNCHANGED poses
          /\ todo' = todo \ {b}
          /\ Goto("copy")
  /\ written' = None
  /\ UNCHANGED <<input, find, sets, attrs, bpy, editing, skel, proc,
                 skin_refs>>

\* lines 196-208: unlink both objects, restore the active object, link the
\* bind-pose object to the import collection, record the back-references
\* on every skin, return
Finish ==
  /\ pc = "finish"
  /\ linked' = linked \ {ArmatureObj, BindPoseObj}
  /\ active' = save_active
  /\ mu_collection' = mu_collection \cup {BindPoseObj}
  /\ skin_refs' = [i \in 1..nskins |->
       [armature |-> armature[armobj], armature_obj |-> ArmatureObj,
        bindPose |-> bindPose[armobj], bindPose_obj |-> BindPoseObj]]
  /\ Goto("done")
  /\ written' = None
  /\ UNCHANGED <<input, find, todo, sets, attrs, datas, objects, obj_parent,
                 save_active, editing, skel, poses, proc>>

Next ==
  \/ FindBonesLookup
  \/ WhileTest
  \/ ForBone
  \/ CreateObjects
  \/ EditArmature
  \/ AnnotateBone
  \/ LinkBone
  \/ ProcessBoneCall
  \/ ProcessBoneReturn
  \/ ObjectArmature
  \/ ActivateBindPose
  \/ EditBindPose
  \/ BindPoseBone
  \/ ObjectBindPose
  \/ CopyPose
  \/ Finish

Spec == Init /\ [][Next]_vars

\* find_bones on a single skin, run to its end: the interpreter keeps
\* executing the loops, so a step that can be taken is taken
InitFind == Init /\ nskins = 1
NextFind == FindBonesLookup \/ WhileTest \/ ForBone
FindSpec == InitFind /\ [][NextFind]_vars /\ WF_vars(NextFind)

\* ------------------------------------------------------------ properties
\* positions of create_armature after the last find_bones call returned
BuildPcs == {"create", "edit_armature", "annotate", "link", "process",
             "object_armature", "activate_bindpose", "edit_bindpose",
             "bindpose", "object_bindpose", "copy", "finish", "done"}
\* positions after the loop of lines 166-174
LinkedPcs == {"process", "object_armature", "activate_bindpose",
              "edit_bindpose", "bindpose", "object_bindpose", "copy",
              "finish", "done"}
\* positions from line 176 on
ProcessedPcs == LinkedPcs \ {"process"}
\* the test of line 112 is about to fail and find_bones to return fb_bones
AboutToReturn == pc = "while" /\ fb_bones \ prev_bones = {}

\* the ancestors of b strictly below the first sibling boundary met on the
\* way up from b (every ancestor when there is no boundary)
RECURSIVE Below(_)
Below(b) ==
  IF b \in siblings \/ parent[b] = None \/ parent[b] \in siblings THEN {}
  ELSE {parent[b]} \cup Below(parent[b])

\* the way up from b meets a sibling boundary before it leaves the tree
RECURSIVE Bounded(_)
Bounded(b) == b # None /\ (b \in siblings \/ Bounded(parent[b]))

\* C1: every bone set find_bones returns, and so the union of them that
\* create_armature keeps, holds with every bone b all ancestors of b that
\* lie strictly below the first sibling boundary above b.
C1_AncestorClosure ==
  /\ \A b \in bones : Below(b) \subseteq bones
  /\ AboutToReturn => \A b \in fb_bones : Below(b) \subseteq fb_bones

\* C1 witness: a returned set holds a bone together with an ancestor that no
\* skin lists, pulled in by the walk.
C1_Witness ==
  /\ pc = "create"
  /\ \E b \in bones : \E a \in Below(b) : bindPose[a] = NoAttr /\ a \in bones

\* the scene of three chained transforms A, B, C, an empty sibling set and
\* one skin whose bone list names A and C
C2_Scene ==
  /\ "C" \in Nodes
  /\ parent["A"] = None /\ parent["B"] = "A" /\ parent["C"] = "B"
  /\ siblings = {}
  /\ nskins = 1 /\ firstBad = 0
  /\ pc # "find_bones"
  /\ {n \in Nodes : bindPose[n] # NoAttr} \ {armobj} = {"A", "C"} \ {armobj}
  /\ pc \notin BuildPcs => {n \in Nodes : bindPose[n] # NoAttr} = {"A", "C"}

\* C2 (as claimed): on that scene the build completes, find_bones returns
\* {A, B, C}, and in the deform skeleton A is a root, B's parent is A and
\* C's parent is B.
C2_ChainBuilds ==
  C2_Scene =>
    /\ pc # "failed"
    /\ pc \in BuildPcs => bones = {"A", "B", "C"}
    /\ pc = "done" =>
         /\ "A" \in rootBones
         /\ bone_parent[ArmatureData]["B"] = "A"
         /\ bone_parent[ArmatureData]["C"] = "B"

C4_ParentsMirrorSource ==
  pc \in LinkedPcs =>
    /\ edit_bones[ArmatureData] = bones
    /\ \A b \in bones :
         IF parent[b] \in bones
         THEN bone_parent[ArmatureData][b] = parent[b] /\ b \notin rootBones
         ELSE bone_parent[ArmatureData][b] = None /\ b \in rootBones
    /\ \A b \in bones : bone_parent[ArmatureData][b] \in bones \cup {None}
    /\ rootBones = {b \in bones : parent[b] \notin bones}

\* C4 witness: the build returned a skeleton with a bone parented to
\* another bone and a root bone whose source parent exists but is excluded.
C4_Witness ==
  /\ pc = "done"
  /\ \E b \in bones : parent[b] \in bones
  /\ \E r \in rootBones : parent[r] # None

\* C5 (as claimed): when create_armature returns, both skeletons have the
\* same bone names and every bone has the same parent in both.
C5_SameTopology ==
  pc = "done" =>
    /\ edit_bones[ArmatureData] = edit_bones[BindPoseData]
    /\ \A n \in Nodes :
         bone_parent[ArmatureData][n] = bone_parent[BindPoseData][n]

\* C5 (amended): when create_armature returns, the bind-pose skeleton has
\* exactly one bone for every bone of the bone set that carries a bind
\* matrix, under the name it has in the deform skeleton, and none of its
\* bones has a parent; the deform skeleton has a bone for every bone of the
\* bone set.
C5_BindPoseIsFlatSubset ==
  pc = "done" =>
    /\ edit_bones[ArmatureData] = bones
    /\ edit_bones[BindPoseData] = {b \in bones : bindPose[b] # NoAttr}
    /\ \A n \in Nodes : bone_parent[BindPoseData][n] = None

\* C5 witness: the build returned, the bind-pose skeleton has a bone, lacks
\* a bone of the deform skeleton, and a deform bone has a parent.
C5_Witness ==
  /\ pc = "done"
  /\ edit_bones[BindPoseData] # {}
  /\ edit_bones[BindPoseData] # edit_bones[ArmatureData]
  /\ \E b \in bones : bone_parent[ArmatureData][b] # None

\* nothing of the armature construction has happened
NoSideEffects ==
  /\ datas = {} /\ objects = {}
  /\ linked = {} /\ mu_collection = {}
  /\ editing = {} /\ active = UserObj

WalkReachesRoot == pc = "for" /\ \E b \in todo : ~Bounded(b)

\* C7: when the walk from a bone of the working set reaches a scene root
\* without meeting a sibling boundary, find_bones ends in a failure; a set
\* it returns holds neither None nor a bone without a boundary above it.
C7_RootWalkIsFatal ==
  /\ [](WalkReachesRoot => <>(pc = "failed" /\ err = "AttributeError"))
  /\ [](AboutToReturn => \A b \in fb_bones : Bounded(b))
  /\ [](\A b \in bones : Bounded(b))

\* C7 witness: find_bones failed after its walk stepped from a scene root
\* to None.
C7_Witness ==
  /\ pc = "failed" /\ err = "AttributeError"
  /\ None \in fb_bones
  /\ datas = {}

\* C8: at most one skeleton is in edit mode at any step, so the deform
\* skeleton has left it when the bind-pose skeleton enters it, and every
\* step that creates a bone, sets a parent or writes head, tail or roll
\* acts on the skeleton that is in edit mode.
C8_EditModeScoped ==
  /\ Cardinality(editing) <= 1
  /\ written # None => written \in editing
  /\ pc \in {"bindpose", "object_bindpose"} => editing = {BindPoseData}
  /\ pc \in {"annotate", "link", "process", "object_armature"} =>
       editing = {ArmatureData}

\* C8 witness: a bone of the bind-pose skeleton was just created, after the
\* deform skeleton got its bones.
C8_Witness ==
  /\ written = BindPoseData
  /\ editing = {BindPoseData}
  /\ edit_bones[ArmatureData] # {}

\* C9: when create_armature leaves edit mode on the deform skeleton, and
\* from then on, every bone of the bone set was visited by process_bone
\* exactly once and its bone annotation is the name; a bone with its
\* parent in the set is never visited before the parent; no step after
\* that touches an edit bone of the deform skeleton.
C9_VisitedOnceThenNamed ==
  /\ \A c \in Nodes : visits[c] >= 1 /\ parent[c] \in bones =>
       visits[parent[c]] >= 1
  /\ pc \in ProcessedPcs =>
       /\ \A b \in bones : visits[b] = 1 /\ bone[b] = "name"
       /\ \A n \in Nodes \ bones : visits[n] = 0 /\ bone[n] = NoAttr
  /\ pc \in ProcessedPcs \ {"object_armature"} => written # ArmatureData

\* C9 witness: the deform skeleton has left edit mode with a bone that was
\* visited as the child of another bone.
C9_Witness ==
  /\ pc = "activate_bindpose"
  /\ editing = {}
  /\ \E b \in bones : parent[b] \in bones /\ visits[b] = 1

\* C10 (as claimed): from their creation on, armobj.armature and
\* armobj.bindPose are the two containers, also when skins[0] is in the
\* bone set; the build does not fail for that; every skin's back-references
\* are the two containers.
C10_SkeletonRefsKept ==
  ArmatureData \in datas =>
    /\ armature[armobj] = ArmatureData
    /\ bindPose[armobj] = BindPoseData
    /\ pc # "failed"
    /\ pc = "done" => \A i \in 1..nskins :
         /\ skin_refs[i].armature = ArmatureData
         /\ skin_refs[i].bindPose = BindPoseData
====
